---- MODULE Spec2Model ----
(***************************************************************************)
(* Model of catalog.js, the d0s catalog management script: the scan report *)
(* parser (parseGrypeScan), the CVE aggregator (aggregateCVEs), the        *)
(* manifest refresh (refreshManifestAggregates), the catalog generator     *)
(* (generateCatalog), the read-only validator (validateAllManifests) and   *)
(* the CLI switch.  The file system (manifests, scan artifacts, apps.json) *)
(* is the program's state; one command runs at a time.                     *)
(***************************************************************************)
EXTENDS Integers, Sequences, FiniteSets, TLC

(***************************************************************************)
(* Bounds of the model.                                                    *)
(***************************************************************************)
MaxRuns == 2        \* commands invoked in one behaviour
MaxVulns == 2       \* records in one vulnerability list
MaxImages == 2      \* images in one version
MaxVersions == 2    \* versions in one provider

(***************************************************************************)
(* JavaScript values.  `undefined` (a missing property) is a tagged        *)
(* record; strings that are compared or collated are sequences of          *)
(* one-character strings so that the comparison is computed, not assumed.  *)
(***************************************************************************)
Undefined == [type |-> "undefined"]

Chars == {".", "0", "1", "9", "B", "a", "b", "e", "h", "l", "p", "t"}

\* UTF-16 code unit of a character
CharCode(c) ==
  CASE c = "." -> 46
    [] c = "0" -> 48
    [] c = "1" -> 49
    [] c = "9" -> 57
    [] c = "B" -> 66
    [] c = "a" -> 97
    [] c = "b" -> 98
    [] c = "e" -> 101
    [] c = "h" -> 104
    [] c = "l" -> 108
    [] c = "p" -> 112
    [] c = "t" -> 116

\* mutant: a longer string is greater, code units decide between equal lengths
RECURSIVE StrGreaterLengthFirst(_, _)
StrGreaterLengthFirst(a, b) ==
  IF Len(a) # Len(b) THEN Len(a) > Len(b)
  ELSE IF a = <<>> THEN FALSE
  ELSE IF CharCode(Head(a)) # CharCode(Head(b))
       THEN CharCode(Head(a)) > CharCode(Head(b))
       ELSE StrGreaterLengthFirst(Tail(a), Tail(b))

\* a > b on JavaScript strings: lexicographic on code units, a proper
\* prefix is smaller
RECURSIVE StrGreater(_, _)
StrGreater(a, b) ==
  IF a = <<>> THEN FALSE
  ELSE IF b = <<>> THEN TRUE
  ELSE IF CharCode(Head(a)) # CharCode(Head(b))
       THEN CharCode(Head(a)) > CharCode(Head(b))
       ELSE StrGreater(Tail(a), Tail(b))

(***************************************************************************)
(* Severity counts and scan artifacts.                                     *)
(***************************************************************************)
SeverityKeys == <<"critical", "high", "medium", "low">>

ZeroCounts == [critical |-> 0, high |-> 0, medium |-> 0, low |-> 0]

AddCounts(a, b) ==
  [critical |-> a.critical + b.critical, high |-> a.high + b.high,
   medium |-> a.medium + b.medium, low |-> a.low + b.low]

\* severity labels a scanner may emit
Labels == {"Critical", "HIGH", "Medium", "low", "Negligible", ""}

\* String.prototype.toLowerCase on the labels
ToLowerCase(s) ==
  CASE s = "Critical" -> "critical"
    [] s = "HIGH" -> "high"
    [] s = "Medium" -> "medium"
    [] s = "Negligible" -> "negligible"
    [] OTHER -> s

\* counts.hasOwnProperty(severity)
HasOwnProperty(counts, severity) == severity \in DOMAIN counts

\* vuln.vulnerability?.severity?.toLowerCase() || 'unknown' ; a TypeError
\* is raised for a null record and for a severity that is not a string
SeverityThrows(vuln) ==
  \/ vuln.type = "null"
  \/ vuln.type = "object" /\ vuln.severity.type = "number"

\* mutant: the label is compared as written
SeverityOfCaseSensitive(vuln) ==
  IF vuln.severity.type = "undefined" THEN "unknown"
  ELSE IF vuln.severity.s = "" THEN "unknown"
  ELSE vuln.severity.s

SeverityOf(vuln) ==
  IF vuln.severity.type = "undefined" THEN "unknown"
  ELSE IF ToLowerCase(vuln.severity.s) = "" THEN "unknown"
  ELSE ToLowerCase(vuln.severity.s)

\* the callback of vulns.forEach applied to one record
CountVuln(counts, vuln) ==
  IF HasOwnProperty(counts, SeverityOf(vuln))
  THEN [counts EXCEPT ![SeverityOf(vuln)] = @ + 1]
  ELSE counts

\* vulns.forEach(...): the counts, or threw = TRUE at the first TypeError
RECURSIVE ForEachVuln(_, _)
ForEachVuln(vulns, counts) ==
  IF vulns = <<>> THEN [threw |-> FALSE, counts |-> counts]
  ELSE IF SeverityThrows(Head(vulns)) THEN [threw |-> TRUE, counts |-> counts]
  ELSE ForEachVuln(Tail(vulns), CountVuln(counts, Head(vulns)))

\* a JavaScript value is truthy; the scan fields are undefined, a string
\* or an array, and every array is truthy
Truthy(v) == v.type # "undefined"

\* scanData.matches || scanData.vulnerabilities || []
SelectVulns(scanData) ==
  IF Truthy(scanData.matches) THEN scanData.matches
  ELSE IF Truthy(scanData.vulnerabilities) THEN scanData.vulnerabilities
  ELSE [type |-> "array", items |-> <<>>]

\* the body of the try block after the existence test: JSON.parse throws on
\* text, reading a property of null throws, forEach of a string throws
TryParseScan(file) ==
  IF file.kind = "text" THEN [threw |-> TRUE, counts |-> ZeroCounts]
  ELSE IF file.value.type = "null" THEN [threw |-> TRUE, counts |-> ZeroCounts]
  ELSE LET vulns == SelectVulns(file.value)
       IN IF vulns.type # "array" THEN [threw |-> TRUE, counts |-> ZeroCounts]
          ELSE ForEachVuln(vulns.items, ZeroCounts)

\* mutant: the counts accumulated before the error are returned
CatchParseScanPartial(partial) == partial

\* what the catch block returns
CatchParseScan(partial) == ZeroCounts

ParseGrypeScan(fs, scanPath) ==
  IF fs[scanPath].kind = "missing" THEN ZeroCounts
  ELSE LET tried == TryParseScan(fs[scanPath])
       IN IF tried.threw THEN CatchParseScan(tried.counts) ELSE tried.counts

\* path.join(basePath, cvePath)
PathJoin(basePath, cvePath) == <<basePath, cvePath>>

\* mutant: only the first platform of a mapping is scanned
CvePathsFirstPlatform(image) ==
  IF image.cves.type = "string" THEN <<image.cves.path>>
  ELSE <<Head(image.cves.values)>>

\* typeof image.cves === 'string' ? [image.cves] : Object.values(image.cves)
CvePaths(image) ==
  IF image.cves.type = "string" THEN <<image.cves.path>>
  ELSE image.cves.values

RECURSIVE SumScans(_, _, _)
SumScans(fs, basePath, cvePaths) ==
  IF cvePaths = <<>> THEN ZeroCounts
  ELSE AddCounts(ParseGrypeScan(fs, PathJoin(basePath, Head(cvePaths))),
                 SumScans(fs, basePath, Tail(cvePaths)))

\* the contribution of one image: nothing when image.cves is falsy
ImageCVEs(fs, basePath, image) ==
  IF Truthy(image.cves) THEN SumScans(fs, basePath, CvePaths(image))
  ELSE ZeroCounts

RECURSIVE AggregateCVEs(_, _, _)
AggregateCVEs(fs, images, basePath) ==
  IF images = <<>> THEN ZeroCounts
  ELSE AddCounts(ImageCVEs(fs, basePath, Head(images)),
                 AggregateCVEs(fs, Tail(images), basePath))

(***************************************************************************)
(* Manifests.  A manifest file is missing, text that is not JSON, or a     *)
(* JSON object.  `providers` is the sequence of the object's keys in       *)
(* Object.keys order with their values; an aggregates object carries its   *)
(* key order, which is what JSON.stringify serialises.                     *)
(***************************************************************************)
\* JSON.stringify of an aggregates object: its key/value pairs in key order
JSONStringify(agg) ==
  [i \in 1..Len(agg.keys) |-> <<agg.keys[i], agg.counts[agg.keys[i]]>>]

\* the object literal { critical, high, medium, low } returned by aggregateCVEs
CountsObject(counts) ==
  [type |-> "object", keys |-> SeverityKeys, counts |-> counts]

\* version.images && version.images.length > 0
HasImages(version) ==
  version.images.type = "array" /\ Len(version.images.items) > 0

\* mutant: the recomputed counts are added to the stored ones
RefreshVersionAccumulating(fs, basePath, version) ==
  IF HasImages(version)
  THEN [version EXCEPT !.aggregates =
          CountsObject(AddCounts(
            IF version.aggregates.type = "undefined" THEN ZeroCounts
            ELSE version.aggregates.counts,
            AggregateCVEs(fs, version.images.items, basePath)))]
  ELSE version

\* mutant: the stored aggregates are trusted when present
RefreshVersionKeepStored(fs, basePath, version) ==
  IF HasImages(version) /\ version.aggregates.type = "undefined"
  THEN [version EXCEPT !.aggregates =
          CountsObject(AggregateCVEs(fs, version.images.items, basePath))]
  ELSE version

\* the body of provider.versions.forEach in refreshManifestAggregates
RefreshVersion(fs, basePath, version) ==
  IF HasImages(version)
  THEN LET newAggregates ==
             CountsObject(AggregateCVEs(fs, version.images.items, basePath))
       IN IF \/ version.aggregates.type = "undefined"
             \/ JSONStringify(version.aggregates) # JSONStringify(newAggregates)
          THEN [version EXCEPT !.aggregates = newAggregates]
          ELSE version
  ELSE version

\* mutant: the versions that have no image are pruned from the manifest that
\* is written back
RefreshedManifestPruning(fs, basePath, manifest, date) ==
  [manifest EXCEPT
     !.lastScanned = date,
     !.providers =
        [p \in 1..Len(manifest.providers) |->
           [manifest.providers[p] EXCEPT
              !.versions =
                 LET refreshed ==
                       [v \in 1..Len(manifest.providers[p].versions) |->
                          RefreshVersion(fs, basePath,
                                         manifest.providers[p].versions[v])]
                 IN SelectSeq(refreshed, HasImages)]]]

\* the manifest object after lines 99-119: lastScanned set, every version
\* of every provider refreshed
RefreshedManifest(fs, basePath, manifest, date) ==
  [manifest EXCEPT
     !.lastScanned = date,
     !.providers =
        [p \in 1..Len(manifest.providers) |->
           [manifest.providers[p] EXCEPT
              !.versions =
                 [v \in 1..Len(manifest.providers[p].versions) |->
                    RefreshVersion(fs, basePath,
                                   manifest.providers[p].versions[v])]]]]

\* validateManifest: the compiled manifest schema.  The schema file is not
\* part of the sources; the required `summary` field is what the
\* specification names.
ValidateManifest(manifest) == manifest.summary.type = "string"

\* validateCatalog: the compiled catalog schema, likewise not part of the
\* sources.  Every entry needs its summary and its labels: an entry is a
\* summary of a manifest, and the labels are what the manifest schema leaves
\* optional.
ValidateCatalog(catalog) ==
  \A i \in 1..Len(catalog.apps) :
    /\ catalog.apps[i].summary.type = "string"
    /\ catalog.apps[i].labels.type = "array"

(***************************************************************************)
(* Catalog entries.                                                        *)
(***************************************************************************)
\* mutant: only the versions of the first provider are gathered
AllVersionsFirstProvider(providers) ==
  IF providers = <<>> THEN <<>> ELSE Head(providers).versions

\* all versions of all providers, in provider order then declaration order
RECURSIVE AllVersions(_)
AllVersions(providers) ==
  IF providers = <<>> THEN <<>>
  ELSE Head(providers).versions \o AllVersions(Tail(providers))

\* totalCVEs: version.aggregates summed where present
RECURSIVE TotalCVEs(_)
TotalCVEs(versions) ==
  IF versions = <<>> THEN ZeroCounts
  ELSE AddCounts(IF Truthy(Head(versions).aggregates)
                 THEN Head(versions).aggregates.counts
                 ELSE ZeroCounts,
                 TotalCVEs(Tail(versions)))

\* totalImages: version.images ? version.images.length : 0
RECURSIVE TotalImages(_)
TotalImages(versions) ==
  IF versions = <<>> THEN 0
  ELSE (IF Truthy(Head(versions).images)
        THEN Len(Head(versions).images.items) ELSE 0)
       + TotalImages(Tail(versions))

\* let latestVersion = '0.0.0'
InitialLatestVersion == <<"0", ".", "0", ".", "0">>

\* if (version.version > latestVersion) latestVersion = version.version
RECURSIVE LatestVersion(_, _)
LatestVersion(versions, latestVersion) ==
  IF versions = <<>> THEN latestVersion
  ELSE LatestVersion(Tail(versions),
                     IF StrGreater(Head(versions).version, latestVersion)
                     THEN Head(versions).version
                     ELSE latestVersion)

ProviderNames(manifest) ==
  [p \in 1..Len(manifest.providers) |-> manifest.providers[p].name]

Includes(seq, x) == \E i \in 1..Len(seq) : seq[i] = x

CatalogEntry(appId, manifest) ==
  [id |-> manifest.id,
   name |-> manifest.name,
   summary |-> manifest.summary,
   labels |-> manifest.labels,
   providers |-> ProviderNames(manifest),
   hasIronBank |-> Includes(ProviderNames(manifest), "ironbank"),
   hasChainguard |-> Includes(ProviderNames(manifest), "chainguard"),
   imageCount |-> TotalImages(AllVersions(manifest.providers)),
   cves |-> TotalCVEs(AllVersions(manifest.providers)),
   latestVersion |-> LatestVersion(AllVersions(manifest.providers),
                                   InitialLatestVersion),
   zarfPackage |-> <<"catalog", appId, "zarf", "zarf.yaml">>,
   links |-> manifest.upstream]

(***************************************************************************)
(* apps.sort((a, b) => a.name.localeCompare(b.name)).  Display names are   *)
(* sequences of ASCII letters; the collation compares the letters without  *)
(* regard to case first and, when that is a tie, puts lower case before    *)
(* upper case at the first difference.                                     *)
(***************************************************************************)
PrimaryWeight(c) ==
  CASE c = "a" -> 1
    [] c = "b" -> 2
    [] c = "B" -> 2
    [] c = "e" -> 5
    [] c = "h" -> 8
    [] c = "l" -> 12
    [] c = "p" -> 16
    [] c = "t" -> 20

IsUpper(c) == CharCode(c) < 97

RECURSIVE ComparePrimary(_, _)
ComparePrimary(a, b) ==
  IF a = <<>> /\ b = <<>> THEN 0
  ELSE IF a = <<>> THEN -1
  ELSE IF b = <<>> THEN 1
  ELSE IF PrimaryWeight(Head(a)) < PrimaryWeight(Head(b)) THEN -1
  ELSE IF PrimaryWeight(Head(a)) > PrimaryWeight(Head(b)) THEN 1
  ELSE ComparePrimary(Tail(a), Tail(b))

RECURSIVE CompareCase(_, _)
CompareCase(a, b) ==
  IF a = <<>> \/ b = <<>> THEN 0
  ELSE IF IsUpper(Head(a)) = IsUpper(Head(b)) THEN CompareCase(Tail(a), Tail(b))
  ELSE IF IsUpper(Head(b)) THEN -1
  ELSE 1

LocaleCompare(a, b) ==
  IF ComparePrimary(a, b) # 0 THEN ComparePrimary(a, b) ELSE CompareCase(a, b)

\* insert entry e into the sorted sequence after every entry that does not
\* compare greater (the sort is stable)
RECURSIVE InsertSorted(_, _)
InsertSorted(sorted, e) ==
  IF sorted = <<>> THEN <<e>>
  ELSE IF LocaleCompare(Head(sorted).name, e.name) > 0 THEN <<e>> \o sorted
  ELSE <<Head(sorted)>> \o InsertSorted(Tail(sorted), e)

\* mutant: the entries stay in discovery order
SortAppsUnsorted(entries) == entries

RECURSIVE SortApps(_)
SortApps(entries) ==
  IF entries = <<>> THEN <<>>
  ELSE InsertSorted(SortApps(SubSeq(entries, 1, Len(entries) - 1)),
                    entries[Len(entries)])

(***************************************************************************)
(* State.                                                                  *)
(***************************************************************************)
VARIABLES
  appDirs,    \* fs.readdirSync(CATALOG_DIR): the directories, in listing order
  manifests,  \* catalog/<appId>/manifest.json of every directory
  scans,      \* the scan artifacts, by joined path
  appsJson,   \* catalog/apps.json
  now,        \* the clock read by new Date()
  command,    \* process.argv[2] of the running (or last) command
  pc,         \* "idle" between commands, "forEach" inside appDirs.forEach
  idx,        \* position of appDirs.forEach
  apps,       \* the entries pushed so far by generateCatalog
  errors,     \* the error counter of validateAllManifests
  exitCode,   \* exit status of the last command, -1 while none has exited
  runs,       \* number of commands invoked
  prev,       \* the command that ran before the current one
  snap        \* the manifests and apps.json as they were at invocation

vars == <<appDirs, manifests, scans, appsJson, now, command, pc, idx, apps,
          errors, exitCode, runs, prev, snap>>

(***************************************************************************)
(* The inputs: what authors and scanners may have put on disk.             *)
(***************************************************************************)
AppDirSet == {"alpha", "beta"}

DirOrders == {<<"alpha", "beta">>, <<"beta", "alpha">>}

NameAlpha == <<"a", "l", "p", "h", "a">>
NameBeta == <<"b", "e", "t", "a">>
NameBetaUpper == <<"B", "e", "t", "a">>
Names == {NameAlpha, NameBeta, NameBetaUpper}

V1_9_0 == <<"1", ".", "9", ".", "0">>
V1_10_0 == <<"1", ".", "1", "0", ".", "0">>
V0_0 == <<"0", ".", "0">>
VersionStrings == {V1_9_0, V1_10_0, V0_0}

MissingFile == [kind |-> "missing"]
TextFile == [kind |-> "text"]
JsonFile(v) == [kind |-> "json", value |-> v]

Str(s) == [type |-> "string", s |-> s]
Array(items) == [type |-> "array", items |-> items]

SeqsUpTo(S, n) == UNION {[1..k -> S] : k \in 0..n}

\* vulnerability records: null, or an object whose severity is missing, a
\* number or a label
VulnRecords ==
  {[type |-> "null"]}
    \cup {[type |-> "object", severity |-> v] :
            v \in {Undefined, [type |-> "number"]} \cup {Str(l) : l \in Labels}}

Vuln(label) == [type |-> "object", severity |-> Str(label)]

ScanFields ==
  {Undefined, [type |-> "string"]}
    \cup {Array(l) : l \in SeqsUpTo(VulnRecords, MaxVulns)}

ScanObject(m, v) == [type |-> "object", matches |-> m, vulnerabilities |-> v]

\* every scan artifact of the model
ScanData ==
  {MissingFile, TextFile, JsonFile([type |-> "null"])}
    \cup {JsonFile(ScanObject(m, Undefined)) : m \in ScanFields}
    \cup {JsonFile(ScanObject(Undefined, v)) : v \in ScanFields}
    \cup {JsonFile(ScanObject(m, Array(<<Vuln("low")>>))) :
            m \in {[type |-> "string"], Array(<<>>), Array(<<Vuln("HIGH")>>)}}

ScanMatches == JsonFile(ScanObject(Array(<<Vuln("Critical"), Vuln("HIGH")>>),
                                   Undefined))
ScanVulnerabilities == JsonFile(ScanObject(Undefined, Array(<<Vuln("low")>>)))

\* a few artifacts, for the inputs that vary the manifest
ScanPool == {MissingFile, ScanMatches, ScanVulnerabilities}

CveFiles == {"amd64.json", "arm64.json"}
ScanPaths == {PathJoin(d, f) : d \in AppDirSet, f \in CveFiles}

DefaultScans ==
  [p \in ScanPaths |-> IF p[2] = "amd64.json" THEN ScanMatches
                       ELSE ScanVulnerabilities]

SinglePath == [type |-> "string", path |-> "amd64.json"]
PlatformMap == [type |-> "object", values |-> <<"amd64.json", "arm64.json">>]
Images == {[cves |-> c] : c \in {Undefined, SinglePath, PlatformMap}}

ImagesValues == {Undefined} \cup {Array(l) : l \in SeqsUpTo(Images, MaxImages)}

StaleCounts == [critical |-> 1, high |-> 2, medium |-> 0, low |-> 0]
StoredAggregates ==
  {Undefined, CountsObject(ZeroCounts), CountsObject(StaleCounts),
   [type |-> "object", keys |-> <<"low", "medium", "high", "critical">>,
    counts |-> ZeroCounts]}

Versions ==
  [version : {V1_9_0}, images : ImagesValues, aggregates : StoredAggregates]

Provider(name, versions) ==
  [name |-> name, support |-> "community", versions |-> versions]

DefaultProviders ==
  << Provider("vendor",
       << [version |-> V1_9_0, images |-> Array(<<[cves |-> SinglePath]>>),
           aggregates |-> CountsObject(StaleCounts)],
          [version |-> V1_10_0, images |-> Array(<<[cves |-> PlatformMap]>>),
           aggregates |-> Undefined] >>),
     Provider("chainguard",
       << [version |-> V1_9_0, images |-> Array(<<>>),
           aggregates |-> CountsObject(StaleCounts)] >>) >>

Manifest(id, name, summary, providers) ==
  [id |-> id, name |-> name, summary |-> summary,
   labels |-> Array(<<Str("web")>>), upstream |-> [git |-> "https://example.com/git"],
   providers |-> providers, lastScanned |-> 0]

Summaries == {Undefined, Str("summary")}

DefaultManifest(dir) ==
  Manifest(dir, IF dir = "alpha" THEN NameAlpha ELSE NameBeta,
           Str("summary"), DefaultProviders)

\* manifests that vary the authored header over the default providers
LabelsValues == {Undefined, Array(<<Str("web")>>)}

HeaderFiles ==
  {MissingFile, TextFile}
    \cup {JsonFile([Manifest(id, name, summary, DefaultProviders)
                      EXCEPT !.labels = labels]) :
            id \in AppDirSet, name \in Names, summary \in Summaries,
            labels \in LabelsValues}

\* provider layouts that vary the version strings
VersionOnly(v) == [version |-> v, images |-> Undefined, aggregates |-> Undefined]
VersionLists ==
  {[i \in 1..Len(l) |-> VersionOnly(l[i])] :
     l \in SeqsUpTo(VersionStrings, MaxVersions)}
VersionLayouts ==
  {<<>>}
    \cup {<<Provider("vendor", l)>> : l \in VersionLists}
    \cup {<<Provider("vendor", l), Provider("ironbank", <<VersionOnly(v)>>)>> :
            l \in VersionLists, v \in VersionStrings}

\* the apps.json an earlier run published when "beta" was the only application
PublishedCatalog ==
  [version |-> "1.0.0", lastUpdated |-> 0,
   apps |-> <<CatalogEntry("beta", DefaultManifest("beta"))>>]

\* the directory order and the manifest headers vary
InitPipeline ==
  /\ appDirs \in DirOrders
  /\ manifests \in [AppDirSet -> HeaderFiles]
  /\ scans = DefaultScans

\* one version of "alpha" and its two scan artifacts vary
InitAggregation ==
  /\ appDirs = <<"alpha", "beta">>
  /\ \E v \in Versions :
       manifests =
         [d \in AppDirSet |->
            IF d = "alpha"
            THEN JsonFile(Manifest("alpha", NameAlpha, Str("summary"),
                                   <<Provider("vendor", <<v>>)>>))
            ELSE JsonFile(DefaultManifest(d))]
  /\ \E a \in ScanPool, b \in ScanPool :
       scans = [DefaultScans EXCEPT ![PathJoin("alpha", "amd64.json")] = a,
                                    ![PathJoin("alpha", "arm64.json")] = b]

\* one scan artifact of "alpha" varies over all of ScanData
InitScan ==
  /\ appDirs = <<"alpha", "beta">>
  /\ manifests = [d \in AppDirSet |-> JsonFile(DefaultManifest(d))]
  /\ \E a \in ScanData :
       scans = [DefaultScans EXCEPT ![PathJoin("alpha", "amd64.json")] = a]

\* the version strings of "alpha" vary
InitVersions ==
  /\ appDirs = <<"alpha", "beta">>
  /\ \E layout \in VersionLayouts :
       manifests =
         [d \in AppDirSet |->
            IF d = "alpha"
            THEN JsonFile(Manifest("alpha", NameAlpha, Str("summary"), layout))
            ELSE JsonFile(DefaultManifest(d))]
  /\ scans = DefaultScans

\* apps.json is there from an earlier run, and the header of "alpha" varies
InitPublished ==
  /\ appDirs = <<"alpha", "beta">>
  /\ \E header \in HeaderFiles :
       manifests =
         [d \in AppDirSet |->
            IF d = "alpha" THEN header ELSE JsonFile(DefaultManifest(d))]
  /\ scans = DefaultScans
  /\ appsJson = JsonFile(PublishedCatalog)

Init ==
  /\ \/ /\ \/ InitPipeline
           \/ InitAggregation
           \/ InitScan
           \/ InitVersions
        /\ appsJson = MissingFile
     \/ InitPublished
  /\ now = 1
  /\ command = "none"
  /\ pc = "idle"
  /\ idx = 1
  /\ apps = <<>>
  /\ errors = 0
  /\ exitCode = -1
  /\ runs = 0
  /\ prev = "none"
  /\ snap = [manifests |-> manifests, appsJson |-> appsJson]

(***************************************************************************)
(* The CLI switch.                                                         *)
(***************************************************************************)
Invoke(cmd) ==
  /\ pc = "idle"
  /\ runs < MaxRuns
  /\ command' = cmd
  /\ prev' = command
  /\ runs' = runs + 1
  /\ snap' = [manifests |-> manifests, appsJson |-> appsJson]
  /\ idx' = 1
  /\ apps' = <<>>
  /\ errors' = 0
  /\ UNCHANGED <<appDirs, manifests, scans, appsJson, now>>

\* case 'validate': validateAllManifests()
InvokeValidate ==
  /\ Invoke("validate")
  /\ pc' = "forEach"
  /\ exitCode' = -1

\* case 'refresh': generateCatalog()
InvokeRefresh ==
  /\ Invoke("refresh")
  /\ pc' = "forEach"
  /\ exitCode' = -1

\* case 'help' and default: print the usage and return
InvokeHelp ==
  /\ Invoke("help")
  /\ pc' = "idle"
  /\ exitCode' = 0

\* process.exit(code), an uncaught exception (code 1), or falling off the
\* end of the script (code 0)
Exit(code) ==
  /\ pc' = "idle"
  /\ exitCode' = code

(***************************************************************************)
(* validateAllManifests.                                                   *)
(***************************************************************************)
\* mutant: a manifest that is not JSON is not counted
ErrorsAfterParseIgnored(file, count) ==
  IF file.kind = "json" /\ ~ValidateManifest(file.value) THEN count + 1
  ELSE count

\* the error counter after the forEach body has seen one manifest file
ErrorsAfter(file, count) ==
  IF file.kind = "missing" THEN count
  ELSE IF file.kind = "text" THEN count + 1
  ELSE IF ~ValidateManifest(file.value) THEN count + 1
  ELSE count

\* the status validateAllManifests leaves the process with
ValidateStatus(count) == IF count > 0 THEN 1 ELSE 0

\* mutant: validate writes the manifest it has read back, time-stamped
ValidateStepWriting ==
  /\ pc = "forEach"
  /\ command = "validate"
  /\ idx <= Len(appDirs)
  /\ errors' = ErrorsAfter(manifests[appDirs[idx]], errors)
  /\ idx' = idx + 1
  /\ manifests' =
       [manifests EXCEPT ![appDirs[idx]] =
          IF @.kind = "json" THEN JsonFile([@.value EXCEPT !.lastScanned = now])
          ELSE @]
  /\ now' = now + 1
  /\ UNCHANGED <<appDirs, scans, appsJson, command, pc, apps, exitCode, runs,
                 prev, snap>>

ValidateStep ==
  /\ pc = "forEach"
  /\ command = "validate"
  /\ idx <= Len(appDirs)
  /\ errors' = ErrorsAfter(manifests[appDirs[idx]], errors)
  /\ idx' = idx + 1
  /\ UNCHANGED <<appDirs, manifests, scans, appsJson, now, command, pc, apps,
                 exitCode, runs, prev, snap>>

ValidateExit ==
  /\ pc = "forEach"
  /\ command = "validate"
  /\ idx > Len(appDirs)
  /\ Exit(ValidateStatus(errors))
  /\ UNCHANGED <<appDirs, manifests, scans, appsJson, now, command, idx, apps,
                 errors, runs, prev, snap>>

(***************************************************************************)
(* generateCatalog: one step per directory, then the sort and the write.   *)
(***************************************************************************)
\* mutant: a directory without a manifest ends the run with status 1
SkipDirectoryFatal ==
  /\ manifests[appDirs[idx]].kind = "missing"
  /\ Exit(1)
  /\ UNCHANGED <<manifests, appsJson, now, idx, apps>>

\* the forEach body returns early: no manifest.json in the directory
SkipDirectory ==
  /\ manifests[appDirs[idx]].kind = "missing"
  /\ idx' = idx + 1
  /\ UNCHANGED <<manifests, appsJson, now, pc, apps, exitCode>>

\* mutant: the parse error is caught and the directory is passed over
ManifestParseErrorCaught ==
  /\ manifests[appDirs[idx]].kind = "text"
  /\ idx' = idx + 1
  /\ UNCHANGED <<manifests, appsJson, now, pc, apps, exitCode>>

\* JSON.parse in refreshManifestAggregates throws; nothing catches it
ManifestParseError ==
  /\ manifests[appDirs[idx]].kind = "text"
  /\ Exit(1)
  /\ UNCHANGED <<manifests, appsJson, now, idx, apps>>

\* mutant: the manifest is written back without being validated
RefreshManifestUnvalidated ==
  /\ manifests[appDirs[idx]].kind = "json"
  /\ now' = now + 1
  /\ LET appId == appDirs[idx]
         manifest == RefreshedManifest(scans, appId, manifests[appId].value, now)
     IN /\ manifests' = [manifests EXCEPT ![appId] = JsonFile(manifest)]
        /\ apps' = Append(apps, CatalogEntry(appId, manifest))
        /\ idx' = idx + 1
        /\ UNCHANGED <<pc, exitCode>>
  /\ UNCHANGED appsJson

\* mutant: the refreshed manifest is kept for the end of the run and not
\* written where it is validated
RefreshManifestDeferred ==
  /\ manifests[appDirs[idx]].kind = "json"
  /\ now' = now + 1
  /\ LET appId == appDirs[idx]
         manifest == RefreshedManifest(scans, appId, manifests[appId].value, now)
     IN IF ~ValidateManifest(manifest)
        THEN /\ Exit(1)
             /\ UNCHANGED <<idx, apps>>
        ELSE /\ apps' = Append(apps, CatalogEntry(appId, manifest))
             /\ idx' = idx + 1
             /\ UNCHANGED <<pc, exitCode>>
  /\ UNCHANGED <<manifests, appsJson>>

\* refreshManifestAggregates and the rest of the forEach body
RefreshManifest ==
  /\ manifests[appDirs[idx]].kind = "json"
  /\ now' = now + 1
  /\ LET appId == appDirs[idx]
         manifest == RefreshedManifest(scans, appId, manifests[appId].value, now)
     IN IF ~ValidateManifest(manifest)
        THEN /\ Exit(1)
             /\ UNCHANGED <<manifests, idx, apps>>
        ELSE /\ manifests' = [manifests EXCEPT ![appId] = JsonFile(manifest)]
             /\ apps' = Append(apps, CatalogEntry(appId, manifest))
             /\ idx' = idx + 1
             /\ UNCHANGED <<pc, exitCode>>
  /\ UNCHANGED appsJson

GenerateCatalogStep ==
  /\ pc = "forEach"
  /\ command = "refresh"
  /\ idx <= Len(appDirs)
  /\ \/ SkipDirectory
     \/ ManifestParseError
     \/ RefreshManifest
  /\ UNCHANGED <<appDirs, scans, command, errors, runs, prev, snap>>

\* the catalog object assembled after the loop
Catalog(entries, date) ==
  [version |-> "1.0.0", lastUpdated |-> date, apps |-> SortApps(entries)]

\* mutant: apps.json is written before the catalog is validated
GenerateCatalogFinishWriteFirst ==
  /\ pc = "forEach"
  /\ command = "refresh"
  /\ idx > Len(appDirs)
  /\ now' = now + 1
  /\ appsJson' = JsonFile(Catalog(apps, now))
  /\ Exit(IF ~ValidateCatalog(Catalog(apps, now)) THEN 1 ELSE 0)
  /\ UNCHANGED <<appDirs, manifests, scans, command, idx, apps, errors, runs,
                 prev, snap>>

GenerateCatalogFinish ==
  /\ pc = "forEach"
  /\ command = "refresh"
  /\ idx > Len(appDirs)
  /\ now' = now + 1
  /\ IF ~ValidateCatalog(Catalog(apps, now))
     THEN /\ Exit(1)
          /\ UNCHANGED appsJson
     ELSE /\ appsJson' = JsonFile(Catalog(apps, now))
          /\ Exit(0)
  /\ UNCHANGED <<appDirs, manifests, scans, command, idx, apps, errors, runs,
                 prev, snap>>

Next ==
  \/ InvokeValidate
  \/ InvokeRefresh
  \/ InvokeHelp
  \/ ValidateStep
  \/ ValidateExit
  \/ GenerateCatalogStep
  \/ GenerateCatalogFinish

Spec == Init /\ [][Next]_vars

(***************************************************************************)
(* Properties.                                                             *)
(***************************************************************************)
RefreshEnded == pc = "idle" /\ command = "refresh"
RefreshSucceeded == RefreshEnded /\ exitCode = 0
ValidateEnded == pc = "idle" /\ command = "validate"

\* every directory was passed and an entry of the assembled catalog has no
\* labels
CatalogRejected ==
  /\ idx > Len(appDirs)
  /\ \E i \in 1..Len(apps) : apps[i].labels = Undefined

JsonDirs(files) == {d \in AppDirSet : files[d].kind = "json"}

\* the (provider, version) positions of a manifest
VersionSlots(manifest) ==
  UNION {{<<p, v>> : v \in 1..Len(manifest.providers[p].versions)} :
           p \in 1..Len(manifest.providers)}

VersionAt(manifest, slot) == manifest.providers[slot[1]].versions[slot[2]]

\* the stored aggregates of a version are the recomputed sum
AggregatesAreSum(d, version) ==
  /\ version.aggregates.type = "object"
  /\ version.aggregates.counts =
       AggregateCVEs(scans,
                     IF version.images.type = "array"
                     THEN version.images.items ELSE <<>>,
                     d)

\* C1 (as stated): after a successful refresh the stored aggregates of every
\* version of every provider of every manifest, the versions without images
\* included, equal the sum of the counts parsed from the scan artifacts its
\* images reference.
C1_EveryVersionIsSum ==
  RefreshSucceeded =>
    \A d \in JsonDirs(manifests) :
      \A slot \in VersionSlots(manifests[d].value) :
        AggregatesAreSum(d, VersionAt(manifests[d].value, slot))

\* C1 (amended): after a successful refresh the stored aggregates of every
\* version that has at least one image equal the sum of the counts parsed
\* from the scan artifacts its images reference, whatever was stored before;
\* a version whose image list is empty or absent keeps the aggregates value
\* (or its absence) that was on disk.
C1_VersionsWithImagesAreSum ==
  RefreshSucceeded =>
    \A d \in JsonDirs(manifests) :
      \A slot \in VersionSlots(manifests[d].value) :
        LET version == VersionAt(manifests[d].value, slot)
            before == VersionAt(snap.manifests[d].value, slot)
        IN IF version.images.type = "array" /\ version.images.items # <<>>
           THEN /\ AggregatesAreSum(d, version)
                /\ version.aggregates.keys = SeverityKeys
           ELSE version.aggregates = before.aggregates

\* a successful refresh replaced a stale stored value by a non-zero sum, and
\* left the stale value of a version without images in place
C1_Witness ==
  /\ RefreshSucceeded
  /\ \E d \in JsonDirs(manifests) :
       \E s1, s2 \in VersionSlots(manifests[d].value) :
         /\ HasImages(VersionAt(manifests[d].value, s1))
         /\ VersionAt(snap.manifests[d].value, s1).aggregates.type = "object"
         /\ VersionAt(snap.manifests[d].value, s1).aggregates
              # VersionAt(manifests[d].value, s1).aggregates
         /\ VersionAt(manifests[d].value, s1).aggregates.counts # ZeroCounts
         /\ ~HasImages(VersionAt(manifests[d].value, s2))
         /\ VersionAt(manifests[d].value, s2).aggregates
              = CountsObject(StaleCounts)

\* the manifest of the k-th directory, as it was at invocation, fails the
\* schema once refreshed
InvalidAt(k) ==
  /\ snap.manifests[appDirs[k]].kind = "json"
  /\ ~ValidateManifest(RefreshedManifest(scans, appDirs[k],
                                         snap.manifests[appDirs[k]].value, now))

\* C2: when the refreshed manifest of a directory fails schema validation,
\* refresh never gets past that directory: the run ends with status 1, the
\* manifest of that directory and of every later one is as it was at
\* invocation, and apps.json is not written by the run.
C2_AbortOnInvalidManifest ==
  command = "refresh" =>
    \A k \in 1..Len(appDirs) :
      InvalidAt(k) =>
        /\ idx <= k
        /\ pc = "idle" => exitCode = 1
        /\ \A j \in k..Len(appDirs) :
             manifests[appDirs[j]] = snap.manifests[appDirs[j]]
        /\ appsJson = snap.appsJson

\* refresh ended at an invalid manifest with a valid manifest still ahead
C2_Witness ==
  /\ RefreshEnded
  /\ exitCode = 1
  /\ idx < Len(appDirs)
  /\ InvalidAt(idx)
  /\ manifests[appDirs[idx + 1]].kind = "json"
  /\ ValidateManifest(manifests[appDirs[idx + 1]].value)

\* the k-th directory holds a manifest that validate counts as failed
FailsValidate(k) ==
  \/ manifests[appDirs[k]].kind = "text"
  \/ /\ manifests[appDirs[k]].kind = "json"
     /\ manifests[appDirs[k]].value.summary.type # "string"

\* C3: validate examines every directory, whatever failed before: its error
\* counter is the number of failed manifests among the directories passed,
\* it exits only after the last directory, and its status is 1 exactly when
\* some manifest failed (schema violation or parse error), 0 otherwise.
C3_ValidateExaminesAll ==
  command = "validate" =>
    /\ errors = Cardinality({k \in 1..(idx - 1) : FailsValidate(k)})
    /\ pc = "idle" =>
         /\ idx = Len(appDirs) + 1
         /\ exitCode = IF \E k \in 1..Len(appDirs) : FailsValidate(k)
                       THEN 1 ELSE 0

\* validate went on after a parse error and counted a later schema violation
C3_Witness ==
  /\ ValidateEnded
  /\ exitCode = 1
  /\ errors = 2
  /\ manifests[appDirs[1]].kind = "text"
  /\ manifests[appDirs[2]].kind = "json"

\* C4: validate and help write no file: while and after they run, every
\* manifest and apps.json are as they were at invocation.
C4_ValidateAndHelpWriteNothing ==
  command \in {"validate", "help"} =>
    /\ manifests = snap.manifests
    /\ appsJson = snap.appsJson

\* validate failed on a catalog that an earlier refresh had published
C4_Witness ==
  /\ ValidateEnded
  /\ exitCode = 1
  /\ prev = "refresh"
  /\ \E d \in AppDirSet : manifests[d].kind = "json"

\* "alpha" holds a manifest with at least one version of a first provider
AlphaHasFirstVersion ==
  /\ manifests["alpha"].kind = "json"
  /\ Len(manifests["alpha"].value.providers) >= 1
  /\ Len(manifests["alpha"].value.providers[1].versions) >= 1

\* position of a display name in alphabetical order
DisplayRank(name) ==
  CASE name = NameAlpha -> 1
    [] name = NameBeta -> 2
    [] name = NameBetaUpper -> 3

\* C5: in every apps.json written by refresh the entries are in
\* non-decreasing alphabetical order of display name, whatever the order of
\* the directory listing; "alpha" never follows "beta".
C5_CatalogSortedByName ==
  appsJson.kind = "json" =>
    \A i, j \in 1..Len(appsJson.value.apps) :
      i < j =>
        /\ DisplayRank(appsJson.value.apps[i].name)
             <= DisplayRank(appsJson.value.apps[j].name)
        /\ ~(/\ appsJson.value.apps[i].name = NameBeta
             /\ appsJson.value.apps[j].name = NameAlpha)

\* the directory listed last is named "alpha" and comes first in apps.json
C5_Witness ==
  /\ RefreshSucceeded
  /\ Len(appsJson.value.apps) = 2
  /\ appsJson.value.apps[1].name = NameAlpha
  /\ appsJson.value.apps[2].name = NameBeta
  /\ appsJson.value.apps[1].zarfPackage[2] = appDirs[2]

\* the list parseGrypeScan consults: matches, else vulnerabilities, else none
ConsultedList(doc) ==
  IF doc.matches.type = "array" THEN doc.matches.items
  ELSE IF doc.matches.type = "undefined" /\ doc.vulnerabilities.type = "array"
       THEN doc.vulnerabilities.items
  ELSE <<>>

\* a record the forEach callback cannot process
Unprocessable(rec) ==
  rec.type = "null" \/ rec.severity.type = "number"

\* the artifact is missing, is not JSON, is not an object with a list, or
\* holds a record that raises part-way through the list
ZeroCase(file) ==
  \/ file.kind = "missing"
  \/ file.kind = "text"
  \/ /\ file.kind = "json"
     /\ \/ file.value.type = "null"
        \/ /\ file.value.type = "object"
           /\ \/ /\ file.value.matches.type # "array"
                 /\ file.value.vulnerabilities.type # "array"
              \/ file.value.matches.type = "string"
              \/ \E i \in 1..Len(ConsultedList(file.value)) :
                   Unprocessable(ConsultedList(file.value)[i])

\* C6: parseGrypeScan returns all-zero counts for a missing artifact, for one
\* that cannot be parsed or processed (an error part-way through the list
\* discards the counts so far) and for one with neither list; no artifact
\* ends a refresh: a refresh that exits with status 1 stopped at a manifest
\* or at the catalog, and a successful one stored zero for a version whose
\* one artifact is such.
C6_ZeroCountsOnBadScan ==
  /\ \A p \in ScanPaths :
       ZeroCase(scans[p]) => ParseGrypeScan(scans, p) = ZeroCounts
  /\ RefreshSucceeded =>
       \A d \in JsonDirs(manifests) :
         \A slot \in VersionSlots(manifests[d].value) :
           (/\ VersionAt(manifests[d].value, slot).images
                 = Array(<<[cves |-> SinglePath]>>)
            /\ ZeroCase(scans[PathJoin(d, "amd64.json")])) =>
             VersionAt(manifests[d].value, slot).aggregates
               = CountsObject(ZeroCounts)
  /\ (RefreshEnded /\ exitCode = 1) =>
       IF idx <= Len(appDirs)
       THEN \/ manifests[appDirs[idx]].kind = "text"
            \/ InvalidAt(idx)
       ELSE CatalogRejected

\* a refresh succeeded over an artifact whose second record is null, and the
\* version that references it alone got zero counts
C6_Witness ==
  /\ RefreshSucceeded
  /\ AlphaHasFirstVersion
  /\ scans[PathJoin("alpha", "amd64.json")] =
       JsonFile(ScanObject(Array(<<Vuln("Critical"), [type |-> "null"]>>),
                           Undefined))
  /\ manifests["alpha"].value.providers[1].versions[1].images
       = Array(<<[cves |-> SinglePath]>>)
  /\ manifests["alpha"].value.providers[1].versions[1].aggregates
       = CountsObject(ZeroCounts)

\* the labels that case-fold to the name of a bucket
LabelsOfBucket(bucket) ==
  CASE bucket = "critical" -> {"critical", "Critical", "CRITICAL"}
    [] bucket = "high" -> {"high", "High", "HIGH"}
    [] bucket = "medium" -> {"medium", "Medium", "MEDIUM"}
    [] bucket = "low" -> {"low", "Low", "LOW"}

Buckets == {"critical", "high", "medium", "low"}

\* the artifact parses and every record of the consulted list is an object
\* whose severity is missing or a string
Parseable(file) ==
  /\ file.kind = "json"
  /\ file.value.type = "object"
  /\ file.value.matches.type # "string"
  /\ file.value.matches.type = "undefined" =>
       file.value.vulnerabilities.type # "string"
  /\ \A i \in 1..Len(ConsultedList(file.value)) :
       ~Unprocessable(ConsultedList(file.value)[i])

\* the record's label is missing, empty or names no bucket
Unrecognised(rec) ==
  \/ rec.severity.type = "undefined"
  \/ \A b \in Buckets : rec.severity.s \notin LabelsOfBucket(b)

DropAt(list, i) == SubSeq(list, 1, i - 1) \o SubSeq(list, i + 1, Len(list))

\* the artifact with record i of its consulted list removed
WithoutRecord(file, i) ==
  IF file.value.matches.type = "array"
  THEN JsonFile([file.value EXCEPT !.matches.items = DropAt(@, i)])
  ELSE JsonFile([file.value EXCEPT !.vulnerabilities.items = DropAt(@, i)])

\* the number of records of the list whose label case-folds to the bucket
CountOfBucket(list, b) ==
  Cardinality({i \in 1..Len(list) :
                 /\ list[i].severity.type = "string"
                 /\ list[i].severity.s \in LabelsOfBucket(b)})

\* the version has one image, which references the single path
SingleScanVersion(version) ==
  version.images = Array(<<[cves |-> SinglePath]>>)

\* C7: for a parseable artifact each bucket is the number of records whose
\* label case-folds to the bucket's name, and removing a record whose label
\* is missing, empty or unknown leaves the four counts as they were.  Scan
\* artifacts are never written, so the artifacts of the states before the
\* first command are those of every state; after a successful refresh the
\* counts stored for a version with one such artifact are these numbers.
C7_CountsByFoldedLabel ==
  /\ runs = 0 =>
       \A p \in ScanPaths :
         Parseable(scans[p]) =>
           LET list == ConsultedList(scans[p].value)
           IN /\ \A b \in Buckets :
                   ParseGrypeScan(scans, p)[b] = CountOfBucket(list, b)
              /\ \A i \in 1..Len(list) :
                   Unrecognised(list[i]) =>
                     ParseGrypeScan([q \in {p} |-> WithoutRecord(scans[p], i)], p)
                       = ParseGrypeScan(scans, p)
  /\ RefreshSucceeded =>
       \A d \in JsonDirs(manifests) :
         \A slot \in VersionSlots(manifests[d].value) :
           LET version == VersionAt(manifests[d].value, slot)
               file == scans[PathJoin(d, "amd64.json")]
           IN (SingleScanVersion(version) /\ Parseable(file)) =>
                \A b \in Buckets :
                  version.aggregates.counts[b] =
                    CountOfBucket(ConsultedList(file.value), b)

\* a refresh counted "Critical" and dropped "Negligible"
C7_Witness ==
  /\ RefreshSucceeded
  /\ AlphaHasFirstVersion
  /\ scans[PathJoin("alpha", "amd64.json")] =
       JsonFile(ScanObject(Array(<<Vuln("Critical"), Vuln("Negligible")>>),
                           Undefined))
  /\ manifests["alpha"].value.providers[1].versions[1].images
       = Array(<<[cves |-> SinglePath]>>)
  /\ manifests["alpha"].value.providers[1].versions[1].aggregates.counts
       = [critical |-> 1, high |-> 0, medium |-> 0, low |-> 0]

RECURSIVE SumCounts(_)
SumCounts(seq) ==
  IF seq = <<>> THEN ZeroCounts
  ELSE AddCounts(seq[Len(seq)], SumCounts(SubSeq(seq, 1, Len(seq) - 1)))

\* what one image is to contribute: nothing without a reference, the one
\* artifact of a path, every platform's artifact of a mapping
ExpectedOfImage(d, image) ==
  CASE image.cves.type = "undefined" -> ZeroCounts
    [] image.cves.type = "string" ->
         ParseGrypeScan(scans, PathJoin(d, image.cves.path))
    [] image.cves.type = "object" ->
         SumCounts([j \in 1..Len(image.cves.values) |->
                      ParseGrypeScan(scans, PathJoin(d, image.cves.values[j]))])

\* C8: aggregateCVEs over the images of a version is the component-wise sum
\* of what each image is to contribute; an image with the two-platform
\* mapping contributes the sum of both platforms' counts.  Images and scan
\* artifacts are never written, so those of the states before the first
\* command are those of every state; after a successful refresh the counts
\* stored for a version with images are that sum.
C8_AggregateIsSumOverImages ==
  /\ runs = 0 =>
       \A d \in JsonDirs(manifests) :
         \A slot \in VersionSlots(manifests[d].value) :
           LET version == VersionAt(manifests[d].value, slot)
           IN version.images.type = "array" =>
                /\ AggregateCVEs(scans, version.images.items, d) =
                     SumCounts([i \in 1..Len(version.images.items) |->
                                  ExpectedOfImage(d, version.images.items[i])])
                /\ \A i \in 1..Len(version.images.items) :
                     version.images.items[i].cves = PlatformMap =>
                       AggregateCVEs(scans, <<version.images.items[i]>>, d) =
                         AddCounts(
                           ParseGrypeScan(scans, PathJoin(d, "amd64.json")),
                           ParseGrypeScan(scans, PathJoin(d, "arm64.json")))
  /\ RefreshSucceeded =>
       \A d \in JsonDirs(manifests) :
         \A slot \in VersionSlots(manifests[d].value) :
           LET version == VersionAt(manifests[d].value, slot)
           IN HasImages(version) =>
                version.aggregates.counts =
                  SumCounts([i \in 1..Len(version.images.items) |->
                               ExpectedOfImage(d, version.images.items[i])])

\* a refresh stored, for a version with a two-platform image and a
\* single-path image, the sum of three non-zero scans
C8_Witness ==
  /\ RefreshSucceeded
  /\ AlphaHasFirstVersion
  /\ LET version == manifests["alpha"].value.providers[1].versions[1]
         amd == ParseGrypeScan(scans, PathJoin("alpha", "amd64.json"))
         arm == ParseGrypeScan(scans, PathJoin("alpha", "arm64.json"))
     IN /\ version.images = Array(<<[cves |-> PlatformMap],
                                    [cves |-> SinglePath]>>)
        /\ amd # ZeroCounts
        /\ arm # ZeroCounts
        /\ version.aggregates.type = "object"
        /\ version.aggregates.counts = AddCounts(AddCounts(amd, arm), amd)

\* a file with its time stamp blanked
WithoutLastScanned(file) ==
  IF file.kind = "json" THEN JsonFile([file.value EXCEPT !.lastScanned = 0])
  ELSE file

WithoutLastUpdated(file) ==
  IF file.kind = "json" THEN JsonFile([file.value EXCEPT !.lastUpdated = 0])
  ELSE file

\* C9: a refresh that runs right after a refresh, with nothing edited in
\* between, leaves every manifest as the first left it except lastScanned,
\* and apps.json as the first left it except lastUpdated.
C9_RefreshIdempotent ==
  (RefreshEnded /\ prev = "refresh") =>
    /\ \A d \in AppDirSet :
         WithoutLastScanned(manifests[d]) = WithoutLastScanned(snap.manifests[d])
    /\ WithoutLastUpdated(appsJson) = WithoutLastUpdated(snap.appsJson)

\* a second refresh rewrote the manifests and apps.json with new time stamps
\* over non-zero aggregates
C9_Witness ==
  /\ RefreshSucceeded
  /\ prev = "refresh"
  /\ snap.appsJson.kind = "json"
  /\ appsJson # snap.appsJson
  /\ \E d \in JsonDirs(manifests) :
       /\ manifests[d] # snap.manifests[d]
       /\ \E slot \in VersionSlots(manifests[d].value) :
            /\ HasImages(VersionAt(manifests[d].value, slot))
            /\ VersionAt(manifests[d].value, slot).aggregates.counts
                 # ZeroCounts

\* a precedes b in lexicographic order of code units
LexLess(a, b) ==
  \E k \in 1..Len(b) :
    /\ Len(a) >= k - 1
    /\ SubSeq(a, 1, k - 1) = SubSeq(b, 1, k - 1)
    /\ Len(a) = k - 1 \/ CharCode(a[k]) < CharCode(b[k])

OwnVersions(manifest) ==
  {VersionAt(manifest, slot).version : slot \in VersionSlots(manifest)}

\* the manifest an entry of apps.json was built from
ManifestOf(entry) == manifests[entry.zarfPackage[2]].value

\* C10 (as stated): latestVersion is the lexicographically highest of the
\* application's version strings and is one of them.
C10_LatestIsOwnVersion ==
  appsJson.kind = "json" =>
    \A i \in 1..Len(appsJson.value.apps) :
      LET entry == appsJson.value.apps[i]
      IN /\ entry.latestVersion \in OwnVersions(ManifestOf(entry))
         /\ \A v \in OwnVersions(ManifestOf(entry)) :
              ~LexLess(entry.latestVersion, v)

\* C10 (amended): latestVersion is the lexicographically highest string
\* among the application's version strings and the initial value "0.0.0"
\* (so "1.9.0" with versions "1.9.0" and "1.10.0"); it is one of the
\* application's own version strings exactly when one of them is not below
\* "0.0.0", and is "0.0.0" otherwise.
C10_LatestIsHighestOrInitial ==
  appsJson.kind = "json" =>
    \A i \in 1..Len(appsJson.value.apps) :
      LET entry == appsJson.value.apps[i]
          own == OwnVersions(ManifestOf(entry))
          seed == <<"0", ".", "0", ".", "0">>
      IN /\ entry.latestVersion \in own \cup {seed}
         /\ \A v \in own \cup {seed} : ~LexLess(entry.latestVersion, v)
         /\ (\E v \in own : ~LexLess(v, seed)) <=> entry.latestVersion \in own
         /\ {V1_9_0, V1_10_0} \subseteq own => entry.latestVersion = V1_9_0

\* apps.json holds "1.9.0" for an application with "1.9.0" and "1.10.0",
\* and "0.0.0" for one whose only version is "0.0"
C10_Witness ==
  /\ RefreshSucceeded
  /\ \E i, j \in 1..Len(appsJson.value.apps) :
       /\ {V1_9_0, V1_10_0} \subseteq OwnVersions(ManifestOf(appsJson.value.apps[i]))
       /\ appsJson.value.apps[i].latestVersion = V1_9_0
       /\ OwnVersions(ManifestOf(appsJson.value.apps[j])) = {V0_0}
       /\ appsJson.value.apps[j].latestVersion = <<"0", ".", "0", ".", "0">>

\* the ids of the entries of a persisted catalog, in catalog order
EntryIds(file) == [i \in 1..Len(file.value.apps) |-> file.value.apps[i].id]

\* C11: application ids are globally unique across the catalog: no master
\* catalog written by refresh contains two entries with the same id, whatever
\* the directories and the manifests are (two directories whose manifests
\* declare the same id included).
C11_CatalogIdsUnique ==
  appsJson.kind = "json" =>
    \A i, j \in 1..Len(appsJson.value.apps) :
      EntryIds(appsJson)[i] = EntryIds(appsJson)[j] => i = j

\* a manifest file without the fields refresh owns: lastScanned and the
\* aggregates of every version
AuthoredFields(file) ==
  IF file.kind # "json" THEN file
  ELSE JsonFile(
         [file.value EXCEPT
            !.lastScanned = 0,
            !.providers =
               [p \in 1..Len(file.value.providers) |->
                  [file.value.providers[p] EXCEPT
                     !.versions =
                        [v \in 1..Len(file.value.providers[p].versions) |->
                           [file.value.providers[p].versions[v] EXCEPT
                              !.aggregates = Undefined]]]]])

\* C12: refresh changes only the lastScanned field and the per-version
\* aggregates of a manifest: every step of a refresh run leaves every other
\* field of every manifest (id, name, summary, upstream, labels, provider
\* names and support, version strings, images and their references) and
\* the existence of every manifest file as they were, and leaves every scan
\* artifact as it was.
C12_RefreshWritesOnlyOwnedFields ==
  [][command' = "refresh" =>
       /\ \A d \in AppDirSet :
            AuthoredFields(manifests'[d]) = AuthoredFields(manifests[d])
       /\ scans' = scans]_vars

\* a refresh has ended after it rewrote a manifest: the time stamp and the
\* aggregates of a version differ from the ones at invocation
C12_Witness ==
  /\ RefreshEnded
  /\ \E d \in JsonDirs(manifests) :
       /\ manifests[d].value.lastScanned # snap.manifests[d].value.lastScanned
       /\ \E slot \in VersionSlots(manifests[d].value) :
            VersionAt(manifests[d].value, slot).aggregates
              # VersionAt(snap.manifests[d].value, slot).aggregates
       /\ AuthoredFields(manifests[d]) = AuthoredFields(snap.manifests[d])

\* the entries of a list that were built for directory d
EntriesOf(entries, d) ==
  {i \in 1..Len(entries) : entries[i].zarfPackage[2] = d}

\* a manifest file that is there and that refresh or validate rejects, or
\* that yields an entry the catalog schema rejects
Rejected(file) ==
  \/ file.kind = "text"
  \/ /\ file.kind = "json"
     /\ \/ file.value.summary = Undefined
        \/ file.value.labels = Undefined

RejectedByValidate(file) ==
  \/ file.kind = "text"
  \/ file.kind = "json" /\ file.value.summary = Undefined

\* C13: a directory without a manifest file is skipped in refresh and in
\* validate.  No manifest file appears in it and no entry is built for it,
\* in the run or in a written catalog; the exit status of a finished run is
\* the one the directories that have a manifest decide (0 when none of them
\* is rejected, 1 otherwise); and a successful refresh has rewritten every
\* manifest there is and given each exactly one entry in the catalog.
C13_MissingManifestSkipped ==
  /\ \A d \in AppDirSet :
       snap.manifests[d].kind = "missing" =>
         /\ manifests[d] = MissingFile
         /\ EntriesOf(apps, d) = {}
         /\ appsJson.kind = "json" => EntriesOf(appsJson.value.apps, d) = {}
  /\ ValidateEnded =>
       /\ idx = Len(appDirs) + 1
       /\ exitCode = 0 <=>
            \A d \in AppDirSet : ~RejectedByValidate(snap.manifests[d])
  /\ RefreshEnded =>
       exitCode = 0 <=> \A d \in AppDirSet : ~Rejected(snap.manifests[d])
  /\ RefreshSucceeded =>
       /\ Len(appsJson.value.apps) = Cardinality(JsonDirs(manifests))
       /\ \A d \in JsonDirs(manifests) :
            /\ Cardinality(EntriesOf(appsJson.value.apps, d)) = 1
            /\ manifests[d].value.lastScanned
                 > snap.manifests[d].value.lastScanned

\* a refresh succeeded although the first directory has no manifest: the one
\* manifest there is was rewritten and has the only entry of the catalog
C13_Witness ==
  /\ RefreshSucceeded
  /\ snap.manifests[appDirs[1]].kind = "missing"
  /\ snap.manifests[appDirs[2]].kind = "json"
  /\ manifests[appDirs[2]] # snap.manifests[appDirs[2]]
  /\ Len(appsJson.value.apps) = 1
  /\ EntriesOf(appsJson.value.apps, appDirs[2]) = {1}

\* the entries of a list as a set
EntrySet(entries) == {entries[i] : i \in 1..Len(entries)}

\* an entry the catalog schema accepts
EntryAccepted(entry) ==
  entry.summary.type = "string" /\ entry.labels.type = "array"

\* C14: the master catalog is validated before it is persisted.  While a
\* refresh is still going through the directories apps.json has the content
\* it had at invocation; a refresh that fails, at a manifest or because an
\* entry of the assembled catalog is rejected, exits with status 1 and leaves
\* apps.json with that content; and when a refresh has given apps.json a new
\* content it has passed every directory, has exited with status 0, and the
\* written catalog holds the entries of all the manifests, each accepted by
\* the catalog schema.
C14_CatalogValidatedBeforeWrite ==
  command = "refresh" =>
    /\ pc = "forEach" => appsJson = snap.appsJson
    /\ (pc = "idle" /\ idx > Len(appDirs)
          /\ \E e \in EntrySet(apps) : ~EntryAccepted(e)) =>
         exitCode = 1 /\ appsJson = snap.appsJson
    /\ (pc = "idle" /\ exitCode # 0) => appsJson = snap.appsJson
    /\ appsJson # snap.appsJson =>
         /\ pc = "idle" /\ exitCode = 0
         /\ idx = Len(appDirs) + 1
         /\ appsJson.kind = "json"
         /\ EntrySet(appsJson.value.apps) = EntrySet(apps)
         /\ Len(appsJson.value.apps) = Cardinality(JsonDirs(manifests))
         /\ \A e \in EntrySet(appsJson.value.apps) : EntryAccepted(e)

\* a refresh rewrote the manifests of both directories, built an entry
\* without labels, exited with status 1 at the catalog, and the apps.json an
\* earlier run published is still there
C14_Witness ==
  /\ RefreshEnded
  /\ exitCode = 1
  /\ idx = Len(appDirs) + 1
  /\ Len(apps) = 2
  /\ \E e \in EntrySet(apps) : e.labels = Undefined
  /\ appsJson = JsonFile(PublishedCatalog)
  /\ appsJson = snap.appsJson

\* what one version contributes to a total: its number of images, or its
\* stored count for a severity (nothing when it has no aggregates)
Contribution(version, what) ==
  IF what = "images"
  THEN IF version.images.type = "array" THEN Len(version.images.items) ELSE 0
  ELSE IF version.aggregates.type = "object"
       THEN version.aggregates.counts[what]
       ELSE 0

\* the contributions of a set of (provider, version) positions, added up
RECURSIVE SumSlots(_, _, _)
SumSlots(manifest, slots, what) ==
  IF slots = {} THEN 0
  ELSE LET slot == CHOOSE s \in slots : TRUE
       IN Contribution(VersionAt(manifest, slot), what)
            + SumSlots(manifest, slots \ {slot}, what)

\* C15: after a successful refresh every entry of the written catalog is
\* consistent with the manifest the run persisted for its directory: for each
\* severity its cves count is the sum of the stored aggregates of all versions
\* of all providers of that manifest, its imageCount is the number of images
\* of all those versions, and its providers are the provider names of the
\* manifest in the manifest's order.
C15_EntryMatchesPersistedManifest ==
  RefreshSucceeded =>
    \A i \in 1..Len(appsJson.value.apps) :
      LET entry == appsJson.value.apps[i]
          manifest == ManifestOf(entry)
      IN /\ DOMAIN entry.cves = {"critical", "high", "medium", "low"}
         /\ \A severity \in DOMAIN entry.cves :
              entry.cves[severity]
                = SumSlots(manifest, VersionSlots(manifest), severity)
         /\ entry.imageCount
              = SumSlots(manifest, VersionSlots(manifest), "images")
         /\ Len(entry.providers) = Len(manifest.providers)
         /\ \A p \in 1..Len(manifest.providers) :
              entry.providers[p] = manifest.providers[p].name

\* a successful refresh wrote an entry over two providers: two images, counts
\* that are not those of the manifest as it was before the run, and a second
\* provider whose stored counts are part of the total
C15_Witness ==
  /\ RefreshSucceeded
  /\ \E i \in 1..Len(appsJson.value.apps) :
       LET entry == appsJson.value.apps[i]
           d == entry.zarfPackage[2]
       IN /\ entry.providers = <<"vendor", "chainguard">>
          /\ entry.imageCount = 2
          /\ entry.cves # CatalogEntry(d, snap.manifests[d].value).cves
          /\ manifests[d].value.providers[2].versions[1].aggregates
               = CountsObject(StaleCounts)
          /\ entry.cves.high > 2

\* C16: in refresh a manifest file that is there but is not JSON is fatal.
\* The run never gets past the first such directory; once it has stopped
\* there its exit status is 1, and that manifest, the manifests of the
\* directories after it and apps.json are as they were at invocation: no
\* entry was built for them and nothing was written for them.  A validate
\* run, in contrast, ends only after it has passed every directory.
C16_UnparseableManifestIsFatal ==
  /\ command = "refresh" =>
       \A k \in 1..Len(appDirs) :
         snap.manifests[appDirs[k]].kind = "text" =>
           /\ idx <= k
           /\ appsJson = snap.appsJson
           /\ \A j \in k..Len(appDirs) :
                /\ manifests[appDirs[j]] = snap.manifests[appDirs[j]]
                /\ EntriesOf(apps, appDirs[j]) = {}
           /\ pc = "idle" => exitCode = 1
  /\ ValidateEnded =>
       /\ idx = Len(appDirs) + 1
       /\ (\E d \in AppDirSet : snap.manifests[d].kind = "text") => exitCode = 1

\* a refresh stopped with status 1 at the first directory, whose manifest is
\* not JSON, and the valid manifest of the second directory was not touched
C16_Witness ==
  /\ RefreshEnded
  /\ exitCode = 1
  /\ idx = 1
  /\ manifests[appDirs[1]] = TextFile
  /\ manifests[appDirs[2]].kind = "json"
  /\ ~Rejected(manifests[appDirs[2]])
  /\ manifests[appDirs[2]] = snap.manifests[appDirs[2]]
  /\ apps = <<>>
  /\ appsJson = snap.appsJson

\* the manifest of directory d was rewritten by the run: it carries a newer
\* time stamp, and the aggregates of its versions with images are the sums
\* over their scan artifacts
Rewritten(d) ==
  /\ manifests[d].kind = "json"
  /\ manifests[d].value.lastScanned > snap.manifests[d].value.lastScanned
  /\ \A slot \in VersionSlots(manifests[d].value) :
       HasImages(VersionAt(manifests[d].value, slot)) =>
         AggregatesAreSum(d, VersionAt(manifests[d].value, slot))

\* C17: refresh is not all-or-nothing.  At every point of a refresh run the
\* manifests of the directories already passed have been rewritten (new
\* lastScanned, recomputed aggregates) and those of the directories not yet
\* passed are as they were at invocation.  A run that ends with status 1
\* stopped at a directory whose manifest is not JSON or fails validation, or
\* at the validation of the catalog; it leaves those rewritten manifests in
\* place and apps.json as it was, so every rewritten manifest is newer than
\* an apps.json that is there.
C17_RefreshNotAllOrNothing ==
  command = "refresh" =>
    /\ \A j \in 1..Len(appDirs) :
         IF j < idx
         THEN snap.manifests[appDirs[j]].kind = "json" => Rewritten(appDirs[j])
         ELSE manifests[appDirs[j]] = snap.manifests[appDirs[j]]
    /\ (pc = "idle" /\ exitCode = 1) =>
         /\ IF idx <= Len(appDirs)
            THEN \/ snap.manifests[appDirs[idx]].kind = "text"
                 \/ /\ snap.manifests[appDirs[idx]].kind = "json"
                    /\ snap.manifests[appDirs[idx]].value.summary = Undefined
            ELSE \E e \in EntrySet(apps) : ~EntryAccepted(e)
         /\ appsJson = snap.appsJson
         /\ appsJson.kind = "json" =>
              \A j \in 1..(idx - 1) :
                manifests[appDirs[j]].kind = "json" =>
                  manifests[appDirs[j]].value.lastScanned
                    > appsJson.value.lastUpdated

\* a refresh stopped with status 1 at the second directory: the manifest of
\* the first is on disk with a new time stamp and other aggregates than
\* before, the second manifest is untouched and no apps.json was written
C17_Witness ==
  /\ RefreshEnded
  /\ exitCode = 1
  /\ idx = 2
  /\ Rewritten(appDirs[1])
  /\ AuthoredFields(manifests[appDirs[1]]) = AuthoredFields(snap.manifests[appDirs[1]])
  /\ WithoutLastScanned(manifests[appDirs[1]])
       # WithoutLastScanned(snap.manifests[appDirs[1]])
  /\ manifests[appDirs[2]] = snap.manifests[appDirs[2]]
  /\ manifests[appDirs[2]].kind = "json"
  /\ appsJson = MissingFile

====
